---- MODULE Spec2Model ----
(***************************************************************************)
(* A model of block-matcher's find_matches (src/src/lib.rs): a stack scan  *)
(* over a program of VM instructions that closes nested blocks and looks   *)
(* every closed block up in a registry of known blocks.                    *)
(*                                                                         *)
(* Every call of find_matches is one entry of the per-call variables       *)
(* (program, pc, register, block_stack, ...); the registry known_blocks is *)
(* shared by all calls.  Indices are 0-based as in the source; TLA+        *)
(* sequences are 1-based, so instruction i of a program p is p[i + 1].     *)
(***************************************************************************)
EXTENDS Integers, Sequences, FiniteSets, TLC

VARIABLES known_blocks, program, pc, register, ins_idx, block_stack,
          collected, result, ret

vars == <<known_blocks, program, pc, register, ins_idx, block_stack,
          collected, result, ret>>

(***************************************************************************)
(* Bounds of the model.                                                    *)
(***************************************************************************)
\* longest program a call of the main specification is given
MaxLen == 4
\* longest program whose instructions are replaced one at a time
MaxEditLen == 3
\* number of calls a caller makes one after the other
MaxCalls == 3
\* number of calls that run at the same time
MaxShared == 2
\* deepest program built by create_program
MaxDepth == 8

(***************************************************************************)
(* enum Instruction.                                                       *)
(***************************************************************************)
Push(n) == [op |-> "Push", arg |-> n]
Or == [op |-> "Or"]
And == [op |-> "And"]
Not == [op |-> "Not"]
If == [op |-> "If"]
Begin == [op |-> "Begin"]
End == [op |-> "End"]

\* payloads of the Push instructions given to the model
PushValues == {0, 1}

Instruction == {Push(n) : n \in PushValues} \cup {Or, And, Not, If, Begin, End}

(***************************************************************************)
(* Option<T>: None is the empty sequence, Some(x) the one-element one.     *)
(***************************************************************************)
None == <<>>
Some(x) == <<x>>

(***************************************************************************)
(* Result<Vec<BlockInfo>, MatchError>, and the value of a local that has   *)
(* not been assigned yet.                                                  *)
(***************************************************************************)
Ok(v) == [tag |-> "Ok", val |-> v]
Err(e) == [tag |-> "Err", err |-> e]
Unset == [tag |-> "Unset"]

\* struct BlockInfo
BlockInfo(start, idx) == [block_start_idx |-> start, registry_idx |-> idx]

\* enum MatchError
NoOneBlockFound == [kind |-> "NoOneBlockFound"]
InvalidBlock(msg) == [kind |-> "InvalidBlock", msg |-> msg]

(***************************************************************************)
(* Strings built by format! are sequences of pieces; numbers are printed   *)
(* in decimal, a Vec<usize> with {:?} as "[a, b, c]".                      *)
(***************************************************************************)
Digit(d) == CASE d = 0 -> "0" [] d = 1 -> "1" [] d = 2 -> "2" [] d = 3 -> "3"
              [] d = 4 -> "4" [] d = 5 -> "5" [] d = 6 -> "6" [] d = 7 -> "7"
              [] d = 8 -> "8" [] d = 9 -> "9"

RECURSIVE Decimal(_)
Decimal(n) == IF n < 10 THEN <<Digit(n)>>
              ELSE Decimal(n \div 10) \o <<Digit(n % 10)>>

RECURSIVE DebugItems(_)
DebugItems(v) == IF v = <<>> THEN <<>>
                 ELSE IF Len(v) = 1 THEN Decimal(v[1])
                 ELSE Decimal(v[1]) \o <<", ">> \o DebugItems(Tail(v))

DebugVec(v) == <<"[">> \o DebugItems(v) \o <<"]">>

\* mutant: the position is reported 1-based
UnopenedCloseMsgOneBased(idx) ==
    <<"Attempt to close the non-existent block, at the position: ">> \o Decimal(idx + 1)

UnopenedCloseMsg(idx) ==
    <<"Attempt to close the non-existent block, at the position: ">> \o Decimal(idx)

\* mutant: the open positions are listed innermost first
RECURSIVE Reversed(_)
Reversed(v) == IF v = <<>> THEN <<>> ELSE Append(Reversed(Tail(v)), v[1])

UnclosedMsgInnermostFirst(stack) ==
    <<"Next blocks weren't be closed. The start blocks positions: ">>
        \o DebugVec(Reversed(stack))

UnclosedMsg(stack) ==
    <<"Next blocks weren't be closed. The start blocks positions: ">> \o DebugVec(stack)

\* impl Display for MatchError
Display(e) ==
    IF e.kind = "NoOneBlockFound"
    THEN <<"Input program should contain at least one block">>
    ELSE <<"Invalid block: ">> \o e.msg

(***************************************************************************)
(* The lookup map: known_blocks.iter().enumerate().map(..).collect() into  *)
(* a HashMap keyed by the shape.  Inserting a key that is already present  *)
(* replaces its value.                                                     *)
(***************************************************************************)
EmptyMap == [k \in {} |-> 0]

\* mutant: a key that is already present keeps its value
InsertKeepFirst(map, key, value) ==
    [k \in DOMAIN map \cup {key} |-> IF k \in DOMAIN map THEN map[k] ELSE value]

Insert(map, key, value) ==
    [k \in DOMAIN map \cup {key} |-> IF k = key THEN value ELSE map[k]]

\* mutant: the entries are numbered from 1
RECURSIVE CollectRegisterOneBased(_, _)
CollectRegisterOneBased(known, n) ==
    IF n = 0 THEN EmptyMap
    ELSE Insert(CollectRegisterOneBased(known, n - 1), known[n], n)

RECURSIVE CollectRegister(_, _)
CollectRegister(known, n) ==
    IF n = 0 THEN EmptyMap
    ELSE Insert(CollectRegister(known, n - 1), known[n], n - 1)

BuildRegister(known) == CollectRegister(known, Len(known))

\* mutant: shapes are compared by their instruction variants only, the Push
\* payloads are ignored
Variants(shape) == [j \in 1..Len(shape) |-> shape[j].op]

GetIgnoringPayload(map, block) ==
    IF \E key \in DOMAIN map : Variants(key) = Variants(block)
    THEN Some(map[CHOOSE key \in DOMAIN map : Variants(key) = Variants(block)])
    ELSE None

\* register.get(block).map(Clone::clone)
Get(map, block) == IF block \in DOMAIN map THEN Some(map[block]) ELSE None

\* mutant: the range leaves the closing End out (.. instead of ..=)
SliceExclusive(p, from, to) == SubSeq(p, from + 1, to)

\* &program[block_start_idx..=ins_idx]
Slice(p, from, to) == SubSeq(p, from + 1, to + 1)

(***************************************************************************)
(* Vec used as the stack of open blocks, and as the collected output.      *)
(***************************************************************************)
\* mutant: the position pushed is 1-based
StackPushOneBased(stack, idx) == Append(stack, idx + 1)

StackPush(stack, idx) == Append(stack, idx)

\* mutant: the oldest open block is taken instead of the newest
StackBottom(stack) == stack[1]

StackTop(stack) == stack[Len(stack)]

\* mutant: the oldest entry is removed instead of the newest
StackPopFront(stack) == Tail(stack)

\* mutant: the top is read but stays on the stack (last() instead of pop())
StackPeekOnly(stack) == stack

StackPop(stack) == SubSeq(stack, 1, Len(stack) - 1)

\* mutant: a block without a registry entry yields no output
EmitMatchedOnly(out, info) ==
    IF info.registry_idx = None THEN out ELSE Append(out, info)

\* mutant: a new entry is put in front of the older ones
EmitInFront(out, info) == <<info>> \o out

Emit(out, info) == Append(out, info)

IsOpener(ins) == ins = Begin \/ ins = If

\* the BlockInfo built when an End pops block_start_idx
CloseBlock(map, p, block_start_idx, idx) ==
    BlockInfo(block_start_idx, Get(map, Slice(p, block_start_idx, idx)))

\* mutant: the stack is not looked at after the scan
FinalResultUnchecked(stack, res) == res

\* the value returned after the scan
FinalResult(stack, res) ==
    IF stack = <<>> THEN res ELSE Err(InvalidBlock(UnclosedMsg(stack)))

(***************************************************************************)
(* Inputs.                                                                 *)
(***************************************************************************)
RECURSIVE SeqsOfLen(_, _)
SeqsOfLen(S, n) ==
    IF n = 0 THEN {<<>>}
    ELSE {Append(s, x) : s \in SeqsOfLen(S, n - 1), x \in S}

SeqsUpTo(S, n) == UNION {SeqsOfLen(S, k) : k \in 0..n}

Programs == SeqsUpTo(Instruction, MaxLen)

\* shapes the registries are made of: blocks, and pieces of blocks that the
\* registry accepts without validation
ShapeIfEnd == <<If, End>>
ShapeIfPush0 == <<If, Push(0), End>>
ShapeIfPush1 == <<If, Push(1), End>>
ShapeNested == <<Begin, If, End, End>>
ShapePrefix == <<Begin>>
ShapeSuffix == <<Push(0), End>>

Registries ==
    { <<>>,
      <<ShapeIfEnd>>,
      <<ShapeIfPush0, ShapeIfPush1>>,
      <<ShapeIfEnd, ShapeIfPush0, ShapeIfEnd>>,
      <<ShapePrefix, ShapeSuffix, ShapeIfEnd, ShapeNested>> }

(***************************************************************************)
(* The calls.                                                              *)
(***************************************************************************)
Calls == DOMAIN program

NewCall == [pc |-> "start",
            register |-> [built |-> FALSE, map |-> EmptyMap],
            ins_idx |-> 0,
            block_stack |-> <<>>,
            collected |-> <<>>,
            result |-> Unset,
            ret |-> Unset]

InitCalls(progs) ==
    /\ program = progs
    /\ pc = [c \in DOMAIN progs |-> NewCall.pc]
    /\ register = [c \in DOMAIN progs |-> NewCall.register]
    /\ ins_idx = [c \in DOMAIN progs |-> NewCall.ins_idx]
    /\ block_stack = [c \in DOMAIN progs |-> NewCall.block_stack]
    /\ collected = [c \in DOMAIN progs |-> NewCall.collected]
    /\ result = [c \in DOMAIN progs |-> NewCall.result]
    /\ ret = [c \in DOMAIN progs |-> NewCall.ret]

Init ==
    /\ known_blocks \in Registries
    /\ \E p \in Programs : InitCalls(<<p>>)

\* mutant: the emptiness check is missing, the empty program is scanned
RejectEmptyMissing(c) ==
    /\ pc[c] = "start"
    /\ program[c] = <<>>
    /\ register' = [register EXCEPT
                      ![c] = [built |-> TRUE, map |-> BuildRegister(known_blocks)]]
    /\ pc' = [pc EXCEPT ![c] = "scan"]
    /\ UNCHANGED <<known_blocks, program, ins_idx, block_stack, collected,
                   result, ret>>

\* if program.is_empty() { return Err(MatchError::NoOneBlockFound); }
RejectEmpty(c) ==
    /\ pc[c] = "start"
    /\ program[c] = <<>>
    /\ ret' = [ret EXCEPT ![c] = Err(NoOneBlockFound)]
    /\ pc' = [pc EXCEPT ![c] = "done"]
    /\ UNCHANGED <<known_blocks, program, register, ins_idx, block_stack,
                   collected, result>>


\* mutant: the stack is not a fresh local of the call, a later call starts
\* with what the call before it left
SetupKeepingStack(c) ==
    /\ pc[c] = "start"
    /\ program[c] # <<>>
    /\ register' = [register EXCEPT
                      ![c] = [built |-> TRUE, map |-> BuildRegister(known_blocks)]]
    /\ block_stack' = [block_stack EXCEPT
                         ![c] = IF c > 1 THEN block_stack[c - 1] ELSE <<>>]
    /\ pc' = [pc EXCEPT ![c] = "scan"]
    /\ UNCHANGED <<known_blocks, program, ins_idx, collected, result, ret>>

\* let register = ...collect(); let mut block_stack = Vec::new();
Setup(c) ==
    /\ pc[c] = "start"
    /\ program[c] # <<>>
    /\ register' = [register EXCEPT
                      ![c] = [built |-> TRUE, map |-> BuildRegister(known_blocks)]]
    /\ block_stack' = [block_stack EXCEPT ![c] = <<>>]
    /\ pc' = [pc EXCEPT ![c] = "scan"]
    /\ UNCHANGED <<known_blocks, program, ins_idx, collected, result, ret>>

Current(c) == program[c][ins_idx[c] + 1]

Scanning(c) == pc[c] = "scan" /\ ins_idx[c] < Len(program[c])


\* mutant: the stack of open blocks is one stack shared by all calls
ScanOpenShared(c) ==
    /\ pc[c] = "scan" /\ ins_idx[c] < Len(program[c])
    /\ program[c][ins_idx[c] + 1] \in {Begin, If}
    /\ block_stack' = [d \in DOMAIN block_stack |-> Append(block_stack[d], ins_idx[c])]
    /\ ins_idx' = [ins_idx EXCEPT ![c] = @ + 1]
    /\ UNCHANGED <<known_blocks, program, pc, register, collected, result, ret>>

\* Begin | If => { block_stack.push(ins_idx); None }
ScanOpen(c) ==
    /\ Scanning(c)
    /\ IsOpener(Current(c))
    /\ block_stack' = [block_stack EXCEPT ![c] = StackPush(@, ins_idx[c])]
    /\ ins_idx' = [ins_idx EXCEPT ![c] = @ + 1]
    /\ UNCHANGED <<known_blocks, program, pc, register, collected, result, ret>>

\* End => block_stack.pop().map(|block_start_idx| Ok(BlockInfo {..}))
ScanClose(c) ==
    /\ Scanning(c)
    /\ Current(c) = End
    /\ block_stack[c] # <<>>
    /\ collected' = [collected EXCEPT
                       ![c] = Emit(@, CloseBlock(register[c].map, program[c],
                                                 StackTop(block_stack[c]), ins_idx[c]))]
    /\ block_stack' = [block_stack EXCEPT ![c] = StackPop(@)]
    /\ ins_idx' = [ins_idx EXCEPT ![c] = @ + 1]
    /\ UNCHANGED <<known_blocks, program, pc, register, result, ret>>

\* mutant: an End without an open block is skipped like a payload instruction
ScanUnopenedSkipped(c) ==
    /\ pc[c] = "scan" /\ ins_idx[c] < Len(program[c])
    /\ program[c][ins_idx[c] + 1] = End
    /\ block_stack[c] = <<>>
    /\ ins_idx' = [ins_idx EXCEPT ![c] = @ + 1]
    /\ UNCHANGED <<known_blocks, program, pc, register, block_stack, collected,
                   result, ret>>


\* mutant: the error is recorded but the scan goes on to the end of the program
ScanUnopenedContinues(c) ==
    /\ pc[c] = "scan" /\ ins_idx[c] < Len(program[c])
    /\ program[c][ins_idx[c] + 1] = End
    /\ block_stack[c] = <<>>
    /\ result' = [result EXCEPT ![c] = Err(InvalidBlock(UnopenedCloseMsg(ins_idx[c])))]
    /\ ins_idx' = [ins_idx EXCEPT ![c] = @ + 1]
    /\ UNCHANGED <<known_blocks, program, pc, register, block_stack, collected, ret>>

\* End => ... .or_else(|| Some(Err(MatchError::InvalidBlock(msg)))): collect()
\* into a Result stops at the first Err and yields it; the Vec built so far is
\* dropped and never returned (collected keeps it here as history only).
ScanUnopened(c) ==
    /\ Scanning(c)
    /\ Current(c) = End
    /\ block_stack[c] = <<>>
    /\ result' = [result EXCEPT ![c] = Err(InvalidBlock(UnopenedCloseMsg(ins_idx[c])))]
    /\ ins_idx' = [ins_idx EXCEPT ![c] = @ + 1]
    /\ pc' = [pc EXCEPT ![c] = "check"]
    /\ UNCHANGED <<known_blocks, program, register, block_stack, collected, ret>>

\* _ => None
ScanOther(c) ==
    /\ Scanning(c)
    /\ ~IsOpener(Current(c))
    /\ Current(c) # End
    /\ ins_idx' = [ins_idx EXCEPT ![c] = @ + 1]
    /\ UNCHANGED <<known_blocks, program, pc, register, block_stack, collected,
                   result, ret>>

\* the iterator is exhausted: collect() yields Ok(the collected Vec)
ScanDone(c) ==
    /\ pc[c] = "scan"
    /\ ins_idx[c] = Len(program[c])
    /\ result' = [result EXCEPT ![c] = Ok(collected[c])]
    /\ pc' = [pc EXCEPT ![c] = "check"]
    /\ UNCHANGED <<known_blocks, program, register, ins_idx, block_stack,
                   collected, ret>>

\* if block_stack.is_empty() { result } else { Err(InvalidBlock(msg)) }
Finish(c) ==
    /\ pc[c] = "check"
    /\ ret' = [ret EXCEPT ![c] = FinalResult(block_stack[c], result[c])]
    /\ pc' = [pc EXCEPT ![c] = "done"]
    /\ UNCHANGED <<known_blocks, program, register, ins_idx, block_stack,
                   collected, result>>

Next ==
    \/ \E c \in Calls : RejectEmpty(c)
    \/ \E c \in Calls : Setup(c)
    \/ \E c \in Calls : ScanOpen(c)
    \/ \E c \in Calls : ScanClose(c)
    \/ \E c \in Calls : ScanUnopened(c)
    \/ \E c \in Calls : ScanOther(c)
    \/ \E c \in Calls : ScanDone(c)
    \/ \E c \in Calls : Finish(c)

Spec == Init /\ [][Next]_vars

(***************************************************************************)
(* Reference notions the properties are stated with.  They are defined on  *)
(* the program text alone, independently of the scan.                      *)
(***************************************************************************)
Openers == {Begin, If}

\* instructions from..to of p, both included (0-based)
Part(p, from, to) == SubSeq(p, from + 1, to + 1)

Weight(ins) == IF ins \in Openers THEN 1 ELSE IF ins = End THEN -1 ELSE 0

\* openers minus Ends among the first n instructions of p
RECURSIVE Balance(_, _)
Balance(p, n) == IF n = 0 THEN 0 ELSE Balance(p, n - 1) + Weight(p[n])

WellNested(p) ==
    /\ \A n \in 0..Len(p) : Balance(p, n) >= 0
    /\ Balance(p, Len(p)) = 0

EndIndices(p) == {i \in 0..(Len(p) - 1) : p[i + 1] = End}
NumEnds(p) == Cardinality(EndIndices(p))

\* index of the k-th End of p, for k in 1..NumEnds(p)
KthEnd(p, k) ==
    CHOOSE e \in EndIndices(p) : Cardinality({j \in EndIndices(p) : j <= e}) = k

\* the End at e closes the opener at s: everything strictly between is balanced
Closes(p, s, e) ==
    /\ 0 <= s /\ s < e /\ e < Len(p)
    /\ p[s + 1] \in Openers
    /\ p[e + 1] = End
    /\ WellNested(Part(p, s + 1, e - 1))

HasCloser(p, s) == \E e \in 0..(Len(p) - 1) : Closes(p, s, e)
Closer(p, s) == CHOOSE e \in 0..(Len(p) - 1) : Closes(p, s, e)

\* some End is reached with more Ends than openers before it
HasUnopened(p) == \E n \in 1..Len(p) : Balance(p, n) < 0
FirstUnopened(p) ==
    CHOOSE e \in 0..(Len(p) - 1) :
        /\ Balance(p, e + 1) < 0
        /\ \A n \in 0..e : Balance(p, n) >= 0

UnmatchedOpeners(p) ==
    {s \in 0..(Len(p) - 1) : p[s + 1] \in Openers /\ ~HasCloser(p, s)}

\* the elements of a set of numbers in ascending order
RECURSIVE Ascending(_)
Ascending(S) ==
    IF S = {} THEN <<>>
    ELSE LET m == CHOOSE x \in S : \A y \in S : x <= y
         IN <<m>> \o Ascending(S \ {m})

\* equality of shapes spelled out: same length, same variant and payload
SameInstruction(a, b) ==
    /\ a.op = b.op
    /\ (a.op = "Push" => a.arg = b.arg)

SameShape(a, b) ==
    /\ Len(a) = Len(b)
    /\ \A j \in 1..Len(a) : SameInstruction(a[j], b[j])

ProperPrefix(a, b) == Len(a) < Len(b) /\ SameShape(a, SubSeq(b, 1, Len(a)))

Done(c) == pc[c] = "done"
Succeeded(c) == Done(c) /\ ret[c].tag = "Ok"
Failed(c) == Done(c) /\ ret[c].tag = "Err"

(***************************************************************************)
(* A caller that, after a successful call reported a matched block, calls  *)
(* find_matches again with the same registry and the same program except   *)
(* for one instruction inside that block.                                  *)
(***************************************************************************)
ReplaceAt(p, i, x) == [p EXCEPT ![i + 1] = x]

EditPrograms == SeqsUpTo(Instruction, MaxEditLen)

InitEdit ==
    /\ known_blocks \in Registries
    /\ \E p \in EditPrograms : InitCalls(<<p>>)

StartCall(p) ==
    /\ program' = Append(program, p)
    /\ pc' = Append(pc, NewCall.pc)
    /\ register' = Append(register, NewCall.register)
    /\ ins_idx' = Append(ins_idx, NewCall.ins_idx)
    /\ block_stack' = Append(block_stack, NewCall.block_stack)
    /\ collected' = Append(collected, NewCall.collected)
    /\ result' = Append(result, NewCall.result)
    /\ ret' = Append(ret, NewCall.ret)
    /\ UNCHANGED known_blocks

Edit ==
    /\ Len(program) = 1
    /\ pc[1] = "done"
    /\ ret[1].tag = "Ok"
    /\ \E k \in 1..Len(ret[1].val), i \in 0..(Len(program[1]) - 1) :
          /\ ret[1].val[k].registry_idx # None
          /\ ret[1].val[k].block_start_idx <= i
          /\ HasCloser(program[1], ret[1].val[k].block_start_idx)
          /\ i <= Closer(program[1], ret[1].val[k].block_start_idx)
          /\ \E x \in Instruction \ {program[1][i + 1]} :
                StartCall(ReplaceAt(program[1], i, x))

NextEdit == Next \/ Edit

SpecEdit == InitEdit /\ [][NextEdit]_vars


(***************************************************************************)
(* The registry and the programs of the repository's tests.                *)
(***************************************************************************)
\* tests::default_register
DefaultRegister ==
    << <<Begin, Push(1), End>>,
       <<If, Push(2), Not, Push(3), End>>,
       <<If, Push(2), Push(3), End>>,
       <<If, End>> >>

\* tests::create_program
RECURSIVE Openings(_)
Openings(deeps_lvl) ==
    IF deeps_lvl = 0 THEN <<>> ELSE Openings(deeps_lvl - 1) \o <<If, Push(2)>>

RECURSIVE Closings(_)
Closings(deeps_lvl) ==
    IF deeps_lvl = 0 THEN <<>> ELSE Closings(deeps_lvl - 1) \o <<Push(3), End>>

CreateProgram(deeps_lvl) ==
    <<Begin>> \o Openings(deeps_lvl) \o Closings(deeps_lvl) \o <<End>>

\* the programs of no_blocks_found, not_opened_block, not_closed_block and
\* big_correct_program (one level deep), and some shorter ones
CallPrograms ==
    { <<>>,
      <<Not>>,
      <<Begin>>,
      <<If, End>>,
      <<Or, End, Push(1), End>>,
      <<Begin, Push(2), If, End, If>>,
      CreateProgram(1) }

CallRegistries == {DefaultRegister, <<ShapeIfEnd, ShapeIfPush0, ShapeIfEnd>>}

(***************************************************************************)
(* A caller that calls find_matches several times, one call after the      *)
(* other, always with the same registry.                                   *)
(***************************************************************************)
AllDone == \A c \in Calls : pc[c] = "done"

InitRepeat ==
    /\ known_blocks \in CallRegistries
    /\ \E p \in CallPrograms : InitCalls(<<p>>)

CallAgain ==
    /\ AllDone
    /\ Len(program) < MaxCalls
    /\ \E p \in CallPrograms : StartCall(p)

NextRepeat == Next \/ CallAgain

SpecRepeat == InitRepeat /\ [][NextRepeat]_vars


(***************************************************************************)
(* Calls that run at the same time and share the registry: their steps     *)
(* interleave in any order.                                                *)
(***************************************************************************)
InitShared ==
    /\ known_blocks \in CallRegistries
    /\ \E progs \in SeqsOfLen(CallPrograms, MaxShared) : InitCalls(progs)

SpecShared == InitShared /\ [][Next]_vars

(***************************************************************************)
(* What a call returns when it runs alone, put together from the reference *)
(* notions: the outcome the other calls are compared with.                 *)
(***************************************************************************)
RefLookup(known, blk) ==
    LET hits == {i \in 1..Len(known) : SameShape(known[i], blk)}
    IN  IF hits = {} THEN None
        ELSE Some((CHOOSE i \in hits : \A j \in hits : j <= i) - 1)

RefBlock(known, p, e) ==
    LET s == CHOOSE s \in 0..(Len(p) - 1) : Closes(p, s, e)
    IN  BlockInfo(s, RefLookup(known, Part(p, s, e)))

RefOutcome(known, p) ==
    IF p = <<>> THEN Err(NoOneBlockFound)
    ELSE IF HasUnopened(p)
    THEN Err(InvalidBlock(
             <<"Attempt to close the non-existent block, at the position: ">>
                 \o Decimal(FirstUnopened(p))))
    ELSE IF Balance(p, Len(p)) > 0
    THEN Err(InvalidBlock(
             <<"Next blocks weren't be closed. The start blocks positions: ">>
                 \o DebugVec(Ascending(UnmatchedOpeners(p)))))
    ELSE Ok([k \in 1..NumEnds(p) |-> RefBlock(known, p, KthEnd(p, k))])


(***************************************************************************)
(* The calls of the repository's tests: the default registry, and the      *)
(* programs of the tests with create_program at every depth up to the      *)
(* bound.                                                                  *)
(***************************************************************************)
DeepPrograms == {CreateProgram(deeps_lvl) : deeps_lvl \in 1..MaxDepth}

InitTests ==
    /\ known_blocks = DefaultRegister
    /\ \E p \in DeepPrograms \cup CallPrograms : InitCalls(<<p>>)

SpecTests == InitTests /\ [][Next]_vars


(***************************************************************************)
(* A caller that, after a successful call, calls find_matches again with   *)
(* the same registry and the same program with one payload instruction     *)
(* more, put in outside of every block (before, between or after them).    *)
(***************************************************************************)
InsertAt(p, i, x) == SubSeq(p, 1, i) \o <<x>> \o SubSeq(p, i + 1, Len(p))

Payloads == Instruction \ {If, Begin, End}

InsertRegistries == { <<ShapeIfEnd, ShapeIfPush0, ShapeNested, ShapeIfEnd>> }

InitInsert ==
    /\ known_blocks \in InsertRegistries
    /\ \E p \in Programs : InitCalls(<<p>>)

InsertPayload ==
    /\ Len(program) = 1
    /\ pc[1] = "done"
    /\ ret[1].tag = "Ok"
    /\ \E i \in 0..Len(program[1]), x \in Payloads :
          /\ Balance(program[1], i) = 0
          /\ StartCall(InsertAt(program[1], i, x))

NextInsert == Next \/ InsertPayload

SpecInsert == InitInsert /\ [][NextInsert]_vars

(***************************************************************************)
(* C1: a finished call returned success if and only if its program is      *)
(* non-empty and well nested (no prefix with more Ends than openers, as    *)
(* many openers as Ends in all); otherwise it returned an error.           *)
(***************************************************************************)
C1_SuccessIffWellNested ==
    \A c \in Calls :
        Done(c) =>
            /\ ret[c].tag \in {"Ok", "Err"}
            /\ ret[c].tag = "Ok" <=> (program[c] # <<>> /\ WellNested(program[c]))

C1_Witness ==
    \E c \in Calls :
        /\ Succeeded(c)
        /\ Len(ret[c].val) >= 2
        /\ known_blocks # <<>>

(***************************************************************************)
(* C2: the k-th reported block is the slice from its start index to the    *)
(* k-th End.  It is reported matched with i only if registry entry i has   *)
(* the same length and the same instructions, and reported not matched     *)
(* exactly when no registry entry is equal to it.                          *)
(***************************************************************************)
C2_ExactMatch ==
    \A c \in Calls :
        \A k \in 1..Len(collected[c]) :
            k <= NumEnds(program[c]) =>
                LET b == collected[c][k]
                    blk == Part(program[c], b.block_start_idx, KthEnd(program[c], k))
                IN  /\ b.registry_idx # None =>
                          /\ b.registry_idx[1] \in 0..(Len(known_blocks) - 1)
                          /\ SameShape(known_blocks[b.registry_idx[1] + 1], blk)
                    /\ b.registry_idx = None <=>
                          ~\E i \in 1..Len(known_blocks) : SameShape(known_blocks[i], blk)

\* a success that reports a matched block and a block that is not matched
\* although a registry entry is a proper prefix of it
C2_Witness ==
    \E c \in Calls :
        /\ Succeeded(c)
        /\ \E k \in 1..Len(ret[c].val) : ret[c].val[k].registry_idx # None
        /\ \E k \in 1..Len(ret[c].val) :
              /\ ret[c].val[k].registry_idx = None
              /\ \E i \in 1..Len(known_blocks) :
                    ProperPrefix(known_blocks[i],
                                 Part(program[c], ret[c].val[k].block_start_idx,
                                      KthEnd(program[c], k)))

(***************************************************************************)
(* C3: in a success result the k-th entry is the block closed by the k-th  *)
(* End of the program, so the closing Ends of the entries ascend.          *)
(***************************************************************************)
C3_EndOrder ==
    \A c \in Calls :
        Succeeded(c) =>
            LET p == program[c]
                out == ret[c].val
            IN  /\ \A k \in 1..Len(out) :
                      /\ k <= NumEnds(p)
                      /\ Closes(p, out[k].block_start_idx, KthEnd(p, k))
                /\ \A j, k \in 1..Len(out) :
                      (j < k /\ HasCloser(p, out[j].block_start_idx)
                             /\ HasCloser(p, out[k].block_start_idx))
                          => Closer(p, out[j].block_start_idx)
                                 < Closer(p, out[k].block_start_idx)

\* a success whose entries are not in the order of their start indices
C3_Witness ==
    \E c \in Calls :
        /\ Succeeded(c)
        /\ \E j, k \in 1..Len(ret[c].val) :
              j < k /\ ret[c].val[j].block_start_idx > ret[c].val[k].block_start_idx

(***************************************************************************)
(* C4: for a non-empty, well-nested program the success result has exactly *)
(* as many entries as the program has End instructions.                    *)
(***************************************************************************)
C4_OneEntryPerEnd ==
    \A c \in Calls :
        (Done(c) /\ program[c] # <<>> /\ WellNested(program[c])) =>
            /\ ret[c].tag = "Ok"
            /\ Len(ret[c].val) = NumEnds(program[c])

\* two blocks among openers and payload instructions, one of them not matched
C4_Witness ==
    \E c \in Calls :
        /\ Succeeded(c)
        /\ NumEnds(program[c]) = 2
        /\ \E k \in 1..Len(ret[c].val) : ret[c].val[k].registry_idx = None
        /\ \E k \in 1..Len(ret[c].val) : ret[c].val[k].registry_idx # None

(***************************************************************************)
(* C5: a call on the empty program returns NoOneBlockFound, whatever the   *)
(* registry, without having built the lookup map, scanned an instruction   *)
(* or produced an entry.                                                   *)
(***************************************************************************)
C5_EmptyProgram ==
    \A c \in Calls :
        (program[c] = <<>> /\ Done(c)) =>
            /\ ret[c] = Err(NoOneBlockFound)
            /\ ~register[c].built
            /\ ins_idx[c] = 0
            /\ collected[c] = <<>>
            /\ result[c] = Unset

C5_Witness ==
    \E c \in Calls : program[c] = <<>> /\ Done(c) /\ known_blocks # <<>>

(***************************************************************************)
(* C6: when some End is reached with the stack empty, the call returns the *)
(* unopened-close error with the index of the first such End, and nothing  *)
(* after that End has been scanned.                                        *)
(***************************************************************************)
C6_FirstUnopenedClose ==
    \A c \in Calls :
        (Done(c) /\ HasUnopened(program[c])) =>
            /\ ret[c].tag = "Err"
            /\ ret[c].err.kind = "InvalidBlock"
            /\ ret[c].err.msg =
                  <<"Attempt to close the non-existent block, at the position: ">>
                      \o Decimal(FirstUnopened(program[c]))
            /\ ins_idx[c] = FirstUnopened(program[c]) + 1

\* the first unopened End is not at index 0 and another unopened End follows
C6_Witness ==
    \E c \in Calls :
        /\ Done(c)
        /\ HasUnopened(program[c])
        /\ FirstUnopened(program[c]) >= 1
        /\ \E e \in EndIndices(program[c]) :
              /\ e > FirstUnopened(program[c]) + 1
              /\ Balance(program[c], e + 1) < Balance(program[c], FirstUnopened(program[c]) + 1)

(***************************************************************************)
(* C7: when the whole program was consumed without an unopened close and   *)
(* openers remain, the call returns the unclosed-blocks error listing      *)
(* exactly the openers without a closing End, in ascending order.          *)
(***************************************************************************)
C7_UnclosedBlocks ==
    \A c \in Calls :
        (Done(c) /\ ~HasUnopened(program[c])
                 /\ Balance(program[c], Len(program[c])) > 0) =>
            /\ ret[c].tag = "Err"
            /\ ret[c].err.kind = "InvalidBlock"
            /\ ret[c].err.msg =
                  <<"Next blocks weren't be closed. The start blocks positions: ">>
                      \o DebugVec(Ascending(UnmatchedOpeners(program[c])))
            /\ ins_idx[c] = Len(program[c])

\* two unclosed openers with a closed block between them
C7_Witness ==
    \E c \in Calls :
        /\ Failed(c)
        /\ ~HasUnopened(program[c])
        /\ Cardinality(UnmatchedOpeners(program[c])) = 2
        /\ NumEnds(program[c]) = 1
        /\ \E s \in UnmatchedOpeners(program[c]) : s < KthEnd(program[c], 1)
        /\ \E s \in UnmatchedOpeners(program[c]) : s > KthEnd(program[c], 1)

(***************************************************************************)
(* C8: a finished call returned either Ok with the complete sequence and   *)
(* no error, or Err with exactly one error and no BlockInfo at all, also   *)
(* when blocks had been closed before the failure was detected.            *)
(***************************************************************************)
IsMatchError(e) ==
    \/ e = NoOneBlockFound
    \/ /\ DOMAIN e = {"kind", "msg"}
       /\ e.kind = "InvalidBlock"

C8_NoPartialSuccess ==
    \A c \in Calls :
        Done(c) =>
            \/ /\ ret[c].tag = "Ok"
               /\ DOMAIN ret[c] = {"tag", "val"}
               /\ ret[c].val = collected[c]
               /\ Len(ret[c].val) = NumEnds(program[c])
               /\ block_stack[c] = <<>>
               /\ ins_idx[c] = Len(program[c])
            \/ /\ ret[c].tag = "Err"
               /\ DOMAIN ret[c] = {"tag", "err"}
               /\ IsMatchError(ret[c].err)
               /\ \/ program[c] = <<>>
                  \/ HasUnopened(program[c])
                  \/ Balance(program[c], Len(program[c])) > 0

\* a failure detected after a block had been closed and looked up
C8_Witness ==
    \E c \in Calls :
        /\ Failed(c)
        /\ collected[c] # <<>>
        /\ \E k \in 1..Len(collected[c]) : collected[c][k].registry_idx # None

(***************************************************************************)
(* The second call of SpecEdit: where its program differs from the first   *)
(* call's, and the blocks of the first call that the difference lies in.   *)
(***************************************************************************)
Edited == Len(program) = 2 /\ Done(2)

EditPos == CHOOSE i \in 0..(Len(program[1]) - 1) : program[1][i + 1] # program[2][i + 1]

\* entry k of the first call is a matched block that holds the edited position
MatchedAround(k) ==
    /\ k \in 1..Len(ret[1].val)
    /\ ret[1].val[k].registry_idx # None
    /\ HasCloser(program[1], ret[1].val[k].block_start_idx)
    /\ ret[1].val[k].block_start_idx <= EditPos
    /\ EditPos <= Closer(program[1], ret[1].val[k].block_start_idx)

SameRole == Weight(program[1][EditPos + 1]) = Weight(program[2][EditPos + 1])

(***************************************************************************)
(* C9 as stated: after one instruction inside a matched block has been     *)
(* replaced by a different one, a successful second call reports that      *)
(* block as not matched.                                                   *)
(***************************************************************************)
C9_AnyEditUnmatches ==
    (Edited /\ ret[2].tag = "Ok") =>
        \A k \in 1..Len(ret[1].val) :
            (MatchedAround(k) /\ k <= Len(ret[2].val)) =>
                ret[2].val[k].registry_idx = None

(***************************************************************************)
(* C9, amended: replacing one instruction inside a block matched to entry  *)
(* i by a different instruction of the same structural role (payload by    *)
(* payload, opener by opener) keeps the block's start and place in the     *)
(* result, and the block no longer matches entry i: it is reported not     *)
(* matched exactly when no registry entry equals the changed block, and    *)
(* matched with such an entry otherwise.  A replacement that changes the   *)
(* role (payload, opener, End) makes the second call fail.                 *)
(***************************************************************************)
C9_EditChangesLookup ==
    Edited =>
        \A k \in 1..Len(ret[1].val) :
            MatchedAround(k) =>
                LET s == ret[1].val[k].block_start_idx
                    old == ret[1].val[k].registry_idx[1]
                    blk == Part(program[2], s, Closer(program[1], s))
                IN  /\ ~SameRole => ret[2].tag = "Err"
                    /\ SameRole =>
                          /\ ret[2].tag = "Ok"
                          /\ Len(ret[2].val) = Len(ret[1].val)
                          /\ ret[2].val[k].block_start_idx = s
                          /\ ret[2].val[k].registry_idx # Some(old)
                          /\ ret[2].val[k].registry_idx = None <=>
                                ~\E i \in 1..Len(known_blocks) :
                                      SameShape(known_blocks[i], blk)
                          /\ ret[2].val[k].registry_idx # None =>
                                /\ ret[2].val[k].registry_idx[1] \in 0..(Len(known_blocks) - 1)
                                /\ SameShape(known_blocks[ret[2].val[k].registry_idx[1] + 1], blk)

\* only a Push payload was changed and the block is now reported not matched
C9_Witness ==
    /\ Edited
    /\ ret[2].tag = "Ok"
    /\ program[1][EditPos + 1].op = "Push"
    /\ program[2][EditPos + 1].op = "Push"
    /\ \E k \in 1..Len(ret[1].val) :
          /\ MatchedAround(k)
          /\ k <= Len(ret[2].val)
          /\ ret[2].val[k].registry_idx = None

(***************************************************************************)
(* C10: a finished call never returned success for a program without a    *)
(* closed block: such a program is rejected with NoOneBlockFound, and a    *)
(* success result holds at least one BlockInfo.                            *)
(***************************************************************************)
HasBlock(p) == \E s, e \in 0..(Len(p) - 1) : Closes(p, s, e)

C10_AtLeastOneBlock ==
    \A c \in Calls :
        Done(c) =>
            /\ ret[c].tag = "Ok" => Len(ret[c].val) >= 1
            /\ (~HasBlock(program[c]) /\ WellNested(program[c]))
                   => ret[c] = Err(NoOneBlockFound)

(***************************************************************************)
(* C11: whenever two finished calls were given the same program (the       *)
(* registry is the same for all calls), they returned the same outcome,    *)
(* whatever was called before or between them.                             *)
(***************************************************************************)
C11_SameInputSameOutcome ==
    \A c, d \in Calls :
        (Done(c) /\ Done(d) /\ program[c] = program[d]) => ret[c] = ret[d]

\* the same program was called twice with a failing call in between that
\* left openers on its stack
C11_Witness ==
    \E c, d, e \in Calls :
        /\ c < d /\ d < e
        /\ Done(c) /\ Done(d) /\ Done(e)
        /\ program[c] = program[e]
        /\ program[d] # program[c]
        /\ block_stack[d] # <<>>
        /\ ret[e].tag = "Ok"
        /\ ret[e].val # <<>>

(***************************************************************************)
(* C12: while calls that share the registry run interleaved, every step    *)
(* changes the stack, output and other locals of one call only and leaves  *)
(* the registry and all programs as they are, and every call returns what  *)
(* it returns when it runs alone.                                          *)
(***************************************************************************)
LocalsOf(d) ==
    <<pc[d], register[d], ins_idx[d], block_stack[d], collected[d], result[d], ret[d]>>

OneCallSteps ==
    /\ known_blocks' = known_blocks
    /\ program' = program
    /\ \E c \in Calls :
          \A d \in Calls \ {c} :
              <<pc[d], register[d], ins_idx[d], block_stack[d], collected[d],
                result[d], ret[d]>>'
                  = LocalsOf(d)

ReturnsAsAlone ==
    \A c \in Calls : Done(c) => ret[c] = RefOutcome(known_blocks, program[c])

C12_NoInterference == []ReturnsAsAlone /\ [][OneCallSteps]_vars

\* two calls on different programs are both in the middle of their scans,
\* each with an open block and a closed block of its own
C12_Witness ==
    \E c, d \in Calls :
        /\ c # d
        /\ program[c] # program[d]
        /\ pc[c] = "scan" /\ pc[d] = "scan"
        /\ block_stack[c] # <<>> /\ block_stack[d] # <<>>
        /\ collected[c] # <<>> /\ collected[d] # <<>>

(***************************************************************************)
(* C13: every BlockInfo produced so far, in any call and at any moment of  *)
(* the scan, starts at a Begin or If; its block ends at the End that       *)
(* produced it, which is the opener's properly nested partner (the slice   *)
(* between them is balanced); and no two entries have the same start.      *)
(***************************************************************************)
C13_BlocksAreProperlyNested ==
    \A c \in Calls :
        LET p == program[c]
            out == collected[c]
        IN  /\ Len(out) <= NumEnds(p)
            /\ \A k \in 1..Len(out) :
                  k <= NumEnds(p) =>
                      LET s == out[k].block_start_idx
                          e == KthEnd(p, k)
                      IN  /\ s \in 0..(Len(p) - 1)
                          /\ p[s + 1] \in Openers
                          /\ s < e
                          /\ e < ins_idx[c]
                          /\ WellNested(Part(p, s, e))
                          /\ \A n \in 1..(e - s) : Balance(Part(p, s, e), n) > 0
            /\ \A j, k \in 1..Len(out) :
                  j # k => out[j].block_start_idx # out[k].block_start_idx

\* a scan, not yet finished, that has closed a block with a block inside it
C13_Witness ==
    \E c \in Calls :
        /\ pc[c] = "scan"
        /\ Len(collected[c]) = 2
        /\ collected[c][2].block_start_idx < collected[c][1].block_start_idx

(***************************************************************************)
(* C14: in a success result a block that lies inside another reported      *)
(* block (it starts after the outer one and its End comes before the       *)
(* outer one's) stands before the outer block; nested blocks are reported  *)
(* in the reverse of the order they were opened in.                        *)
(***************************************************************************)
Inside(p, inner, outer) ==
    /\ HasCloser(p, inner) /\ HasCloser(p, outer)
    /\ outer < inner
    /\ Closer(p, inner) < Closer(p, outer)

C14_InnerBeforeOuter ==
    \A c \in Calls :
        Succeeded(c) =>
            \A j, k \in 1..Len(ret[c].val) :
                Inside(program[c], ret[c].val[j].block_start_idx,
                       ret[c].val[k].block_start_idx)
                    => j < k

\* a success with a matched block inside a matched block
C14_Witness ==
    \E c \in Calls :
        /\ Succeeded(c)
        /\ \E j, k \in 1..Len(ret[c].val) :
              /\ Inside(program[c], ret[c].val[j].block_start_idx,
                        ret[c].val[k].block_start_idx)
              /\ ret[c].val[j].registry_idx # None
              /\ ret[c].val[k].registry_idx # None

(***************************************************************************)
(* C15: with the default registry, the program create_program builds for a *)
(* depth d >= 1 yields a success of exactly d + 1 entries; the first is    *)
(* the innermost If block, starting at 2d - 1 and matched to registry      *)
(* index 2, the last is the outer Begin block at 0, not matched.           *)
(***************************************************************************)
C15_DeepProgram ==
    \A c \in Calls :
        \A d \in 1..MaxDepth :
            (Done(c) /\ known_blocks = DefaultRegister
                     /\ program[c] = CreateProgram(d)) =>
                /\ ret[c].tag = "Ok"
                /\ Len(ret[c].val) = d + 1
                /\ ret[c].val[1] = BlockInfo(2 * d - 1, Some(2))
                /\ ret[c].val[d + 1] = BlockInfo(0, None)

\* the call on the deepest program has returned
C15_Witness ==
    \E c \in Calls :
        /\ Done(c)
        /\ MaxDepth >= 3
        /\ program[c] = CreateProgram(MaxDepth)
        /\ Len(program[c]) = 4 * MaxDepth + 2

(***************************************************************************)
(* C16: the scan step for a payload instruction (Push, Or, And, Not)       *)
(* leaves the stack and the output as they are, the step for an opener     *)
(* pushes the current index and leaves the output as it is; and a program  *)
(* with one more payload instruction outside of its blocks yields the same *)
(* entries with the same registry indices, the starts behind the new       *)
(* instruction moved by one.                                               *)
(***************************************************************************)
ScansNow(c) == pc[c] = "scan" /\ ins_idx'[c] = ins_idx[c] + 1

ScannedOp(c) == program[c][ins_idx[c] + 1].op

ScanFrame ==
    \A c \in Calls :
        ScansNow(c) =>
            /\ ScannedOp(c) \in {"Push", "Or", "And", "Not"} =>
                  /\ block_stack'[c] = block_stack[c]
                  /\ collected'[c] = collected[c]
                  /\ result'[c] = result[c]
                  /\ ret'[c] = ret[c]
                  /\ pc'[c] = "scan"
            /\ ScannedOp(c) \in {"Begin", "If"} =>
                  /\ block_stack'[c] = Append(block_stack[c], ins_idx[c])
                  /\ collected'[c] = collected[c]
                  /\ result'[c] = result[c]
                  /\ ret'[c] = ret[c]
                  /\ pc'[c] = "scan"

Inserted == Len(program) = 2 /\ Done(2)

\* where the second program has its additional instruction
InsertPos ==
    CHOOSE i \in 0..Len(program[1]) :
        \E x \in Payloads : program[2] = InsertAt(program[1], i, x)

Moved(s) == IF s >= InsertPos THEN s + 1 ELSE s

SameBlocksMoved ==
    Inserted =>
        /\ ret[2].tag = "Ok"
        /\ Len(ret[2].val) = Len(ret[1].val)
        /\ \A k \in 1..Len(ret[1].val) :
              /\ k <= Len(ret[2].val) =>
                    /\ ret[2].val[k].registry_idx = ret[1].val[k].registry_idx
                    /\ ret[2].val[k].block_start_idx
                          = Moved(ret[1].val[k].block_start_idx)

C16_PayloadAndOpenerFrame == []SameBlocksMoved /\ [][ScanFrame]_vars

\* a payload instruction was put between two blocks, one of them matched
C16_Witness ==
    /\ Inserted
    /\ Len(ret[1].val) = 2
    /\ \E k \in 1..2 : ret[1].val[k].registry_idx # None
    /\ ret[1].val[1].block_start_idx < InsertPos
    /\ InsertPos <= ret[1].val[2].block_start_idx
    /\ ret[2].tag = "Ok"

(***************************************************************************)
(* C17: as long as the instructions scanned so far hold no End without an  *)
(* open block, the stack holds exactly the openers among them that are not *)
(* closed yet, in strictly ascending order from bottom to top; each entry  *)
(* is the index of a Begin or If, and the depth is the number of openers   *)
(* minus the number of Ends scanned.                                       *)
(***************************************************************************)
Scanned(c) == SubSeq(program[c], 1, ins_idx[c])

C17_StackInvariant ==
    \A c \in Calls :
        ~HasUnopened(Scanned(c)) =>
            LET stack == block_stack[c]
            IN  /\ stack = Ascending(UnmatchedOpeners(Scanned(c)))
                /\ \A j, k \in 1..Len(stack) : j < k => stack[j] < stack[k]
                /\ \A k \in 1..Len(stack) :
                      /\ stack[k] \in 0..(ins_idx[c] - 1)
                      /\ program[c][stack[k] + 1] \in Openers
                /\ Len(stack) = Balance(program[c], ins_idx[c])

\* in the middle of a scan: a block has been closed and two openers behind
\* it are open
C17_Witness ==
    \E c \in Calls :
        /\ pc[c] = "scan"
        /\ collected[c] # <<>>
        /\ Len(block_stack[c]) = 2
        /\ block_stack[c][1] > collected[c][1].block_start_idx

(***************************************************************************)
(* C18: the final check of the stack never replaces an unopened-close      *)
(* error.  A call whose program has an End without an open block returns   *)
(* the unopened-close error of the first such End, also when openers that  *)
(* are never closed follow it; the unclosed-blocks error is returned only  *)
(* when no prefix of the program has more Ends than openers.               *)
(***************************************************************************)
IsUnopenedError(r) ==
    /\ r.tag = "Err"
    /\ r.err.kind = "InvalidBlock"
    /\ r.err.msg[1] = "Attempt to close the non-existent block, at the position: "

IsUnclosedError(r) ==
    /\ r.tag = "Err"
    /\ r.err.kind = "InvalidBlock"
    /\ r.err.msg[1] = "Next blocks weren't be closed. The start blocks positions: "

C18_UnopenedCloseWins ==
    \A c \in Calls :
        /\ (pc[c] = "check" /\ result[c].tag = "Err") => block_stack[c] = <<>>
        /\ Done(c) =>
              /\ HasUnopened(program[c]) =>
                    /\ IsUnopenedError(ret[c])
                    /\ ret[c] = result[c]
                    /\ ret[c].err.msg = <<ret[c].err.msg[1]>>
                                           \o Decimal(FirstUnopened(program[c]))
              /\ IsUnclosedError(ret[c]) =>
                    /\ ~HasUnopened(program[c])
                    /\ Balance(program[c], Len(program[c])) > 0

\* an End without an open block, then an opener that is never closed
C18_Witness ==
    \E c \in Calls :
        /\ Done(c)
        /\ HasUnopened(program[c])
        /\ \E s \in UnmatchedOpeners(program[c]) : s > FirstUnopened(program[c])
        /\ IsUnopenedError(ret[c])

(***************************************************************************)
(* C19: a reported registry index is a position of the registry whose      *)
(* entry equals the block, and when several entries equal the block it is  *)
(* the largest of their positions (the last duplicate wins).               *)
(***************************************************************************)
C19_LastDuplicateWins ==
    \A c \in Calls :
        \A k \in 1..Len(collected[c]) :
            (k <= NumEnds(program[c]) /\ collected[c][k].registry_idx # None) =>
                LET idx == collected[c][k].registry_idx[1]
                    blk == Part(program[c], collected[c][k].block_start_idx,
                                KthEnd(program[c], k))
                IN  /\ idx \in 0..(Len(known_blocks) - 1)
                    /\ SameShape(known_blocks[idx + 1], blk)
                    /\ \A i \in 1..Len(known_blocks) :
                          SameShape(known_blocks[i], blk) => i - 1 <= idx

\* a returned block that equals two entries of the registry
C19_Witness ==
    \E c \in Calls :
        /\ Succeeded(c)
        /\ \E k \in 1..Len(ret[c].val) :
              /\ ret[c].val[k].registry_idx # None
              /\ \E i, j \in 1..Len(known_blocks) :
                    /\ i < j
                    /\ known_blocks[i] = known_blocks[j]
                    /\ ret[c].val[k].registry_idx = Some(j - 1)

====
